---- MODULE Spec2Model ----
(***************************************************************************)
(* Model of the prediction resolution pipeline of the load-shedding API:   *)
(* MLService (backend/api/app/services/ml_service.py) and CacheService     *)
(* (backend/api/app/services/cache_service.py).                            *)
(*                                                                         *)
(* Units.  Floats are modelled by exact integers:                          *)
(*   - ratios and confidences before rounding: exact rationals or 1e-4     *)
(*     units (0.85 is 8500);                                               *)
(*   - confidence_score after round(x, 3): thousandths (0.85 is 850);      *)
(*   - deficit_ratio after round(x, 4): ten-thousandths (0.0968 is 968).   *)
(* Strings carried by the input record are numbered (see ParseDatetime).   *)
(* The result's "timestamp" field (wall clock) is not modelled.            *)
(* Loaded predictors are deterministic functions of the feature array.     *)
(* The prediction cache is empty when the service is first constructed.    *)
(* Redis is a server of its own: its content outlives the API process.     *)
(* Python salts the hash of a string with a seed drawn when the            *)
(* interpreter starts; hash_seed is the seed of the running process.       *)
(* The ratio comparisons are exact; on the inputs below they agree with    *)
(* the double-precision comparisons of the source.                         *)
(***************************************************************************)
EXTENDS Integers, Sequences, FiniteSets, TLC

VARIABLES
    artifact,      \* what lies on disk under MODEL_PATH, per artifact name
    models,        \* MLService.models: the registry, name -> loaded object
    is_connected,  \* CacheService.is_connected
    cache,         \* Redis content: key -> [value, ttl] (absent keys not in DOMAIN)
    pc,            \* per caller: position inside predict_loadshedding
    data,          \* per caller: the input record (insertion-ordered dict)
    features,      \* per caller: the feature array handed to the models
    idx,           \* per caller: position in model_preferences (1-based)
    result,        \* per caller: the returned dict
    trace,         \* per caller: strategies attempted so far, in order (history)
    predicted,     \* history: <<model name, raw label>> returned by predict calls
    started,       \* number of calls started so far
    hash_seed,     \* the string-hash seed of the running interpreter
    cache_key,     \* per caller: the local cache_key of predict_loadshedding
    written,       \* history: key -> the fields of the call that wrote the entry
    status,        \* the dict last returned by get_model_status
    est_in,        \* estimator harness: the input record last applied
    est_out        \* estimator harness: the outcome of _fallback_prediction

vars == <<artifact, models, is_connected, cache, pc, data, features, idx,
          result, trace, predicted, started, hash_seed, cache_key, written,
          status, est_in, est_out>>

(***************************************************************************)
(* Bounds                                                                  *)
(***************************************************************************)
MaxCalls == 2          \* calls started in one behaviour
TickSeconds == 150     \* seconds that pass in one Tick

Callers == {"c1", "c2"}

(***************************************************************************)
(* Values of the loosely typed input record                                *)
(***************************************************************************)
N(x) == [t |-> "num", n |-> x]     \* a number
S(i) == [t |-> "str", n |-> i]     \* string number i

\* Strings 0..23 are "2024-06-15T<h>:00:00" (a Saturday), 24..47 are
\* "2024-06-14T<h-24>:00:00" (a Friday), 101 is "abc".
Timestamp(day, hour) == S(24 * day + hour)
Abc == S(101)

(***************************************************************************)
(* The input dict: a sequence of <<key, value>> pairs in insertion order,  *)
(* keys unique.                                                            *)
(***************************************************************************)
HasKey(d, k) == \E i \in 1..Len(d) : d[i][1] = k

\* d[k] for a key that is present
Lookup(d, k) == d[CHOOSE i \in 1..Len(d) : d[i][1] = k][2]

\* dict.get(k, default)
Get(d, k, default) == IF HasKey(d, k) THEN Lookup(d, k) ELSE default

\* Rank of a key in Python's string order:
\* "date_time" < "datetime" < "demand_forecast" < "generation_capacity"
\*   < "temperature"
FieldRank(k) ==
    CASE k = "date_time" -> 1
      [] k = "datetime" -> 2
      [] k = "demand_forecast" -> 3
      [] k = "generation_capacity" -> 4
      [] k = "temperature" -> 5

RECURSIVE InsertSorted(_, _)
InsertSorted(item, s) ==
    IF s = <<>> THEN <<item>>
    ELSE IF FieldRank(item[1]) < FieldRank(Head(s)[1]) THEN <<item>> \o s
    ELSE <<Head(s)>> \o InsertSorted(item, Tail(s))

\* sorted(data.items()): keys are unique, so the order is the key order
RECURSIVE SortedItems(_)
SortedItems(d) ==
    IF d = <<>> THEN <<>> ELSE InsertSorted(Head(d), SortedItems(Tail(d)))

TagCode(v) == CASE v.t = "num" -> 1 [] v.t = "str" -> 2 [] OTHER -> 3

\* str(list of items): the text, as a sequence of character codes
RECURSIVE StrOf(_)
StrOf(items) ==
    IF items = <<>> THEN <<>>
    ELSE <<FieldRank(Head(items)[1]), TagCode(Head(items)[2]), Head(items)[2].n>>
         \o StrOf(Tail(items))

HashMod == 1000003

\* hash(text): a string hash folded over the characters, of bounded width
RECURSIVE HashFrom(_, _)
HashFrom(h, codes) ==
    IF codes = <<>> THEN h
    ELSE HashFrom((h * 31 + Head(codes)) % HashMod, Tail(codes))

\* The seeds an interpreter may draw at start-up.  Seeds are opaque: the one
\* drawn by the first interpreter is called FirstSeed, a later interpreter
\* draws FirstSeed again or another one.
HashSeeds == {7, 11}
FirstSeed == CHOOSE s \in HashSeeds : \A t \in HashSeeds : s <= t

hash(seed, codes) == HashFrom(seed, codes)

\* cache_key = f"prediction:{hash(str(sorted(data.items())))}"
CacheKey(seed, d) == hash(seed, StrOf(SortedItems(d)))

(***************************************************************************)
(* pandas.to_datetime on the values the model carries                      *)
(***************************************************************************)
ParseDatetime(v) ==
    IF v.t = "str" /\ v.n \in 0..47
    THEN [raised |-> FALSE, error |-> "",
          hour |-> v.n % 24,
          dayofweek |-> IF v.n < 24 THEN 5 ELSE 4,
          month |-> 6]
    ELSE [raised |-> TRUE, error |-> "ParserError",
          hour |-> 0, dayofweek |-> 0, month |-> 0]

\* IsPeak with the morning window left out
IsPeakEveningOnly(hour) == 17 <= hour /\ hour <= 21

\* 6 <= hour <= 10 or 17 <= hour <= 21
IsPeak(hour) == (6 <= hour /\ hour <= 10) \/ (17 <= hour /\ hour <= 21)

(***************************************************************************)
(* Model registry                                                          *)
(***************************************************************************)
\* model_preferences with the two names exchanged
ModelNamesReversed == <<"random_forest", "xgboost">>

ModelNames == <<"xgboost", "random_forest">>         \* model_preferences
ArtifactNames == <<"xgboost", "random_forest", "scaler">>  \* load order

\* What a file under MODEL_PATH can be: missing, unreadable by joblib, or a
\* pickled object.  Predictors: "proba" has a predict_proba method, "plain"
\* has none, "throwing" raises in predict.  Scalers: "scaler_ok" transforms,
\* "scaler_throwing" raises in transform.  The pickled xgboost object is
\* taken to be a classifier with predict_proba, the random forest one an
\* estimator without.
ArtifactKinds(name) ==
    {"absent", "corrupt"} \cup
        (CASE name = "xgboost" -> {"proba", "throwing"}
           [] name = "random_forest" -> {"plain", "throwing"}
           [] OTHER -> {"scaler_ok", "scaler_throwing"})

\* The disks: every combination of missing and loadable artifacts, and, for
\* each artifact, the disk on which it alone is unreadable (load_models
\* empties the registry on the first unreadable artifact, whatever the
\* others are)
LoadableDisks ==
    {f \in [{ArtifactNames[i] : i \in 1..Len(ArtifactNames)} ->
               UNION {ArtifactKinds(ArtifactNames[i]) : i \in 1..Len(ArtifactNames)}] :
        \A n \in DOMAIN f : f[n] \in ArtifactKinds(n) \ {"corrupt"}}

CorruptDisks ==
    {[n \in {ArtifactNames[i] : i \in 1..Len(ArtifactNames)} |->
         IF n = bad THEN "corrupt"
         ELSE CASE n = "xgboost" -> "proba"
                [] n = "random_forest" -> "plain"
                [] OTHER -> "absent"] :
        bad \in {ArtifactNames[i] : i \in 1..Len(ArtifactNames)}}

Disks == LoadableDisks \cup CorruptDisks

EmptyRegistry == [n \in {} |-> "absent"]

Put(reg, name, obj) == [n \in DOMAIN reg \cup {name} |-> IF n = name THEN obj ELSE reg[n]]

\* load_models: the three loads share one try block; the handler resets the
\* registry
RECURSIVE LoadFrom(_, _, _)
LoadFrom(disk, i, reg) ==
    IF i > Len(ArtifactNames) THEN reg
    ELSE LET name == ArtifactNames[i] IN
         CASE disk[name] = "absent" -> LoadFrom(disk, i + 1, reg)
           [] disk[name] = "corrupt" -> EmptyRegistry
           [] OTHER -> LoadFrom(disk, i + 1, Put(reg, name, disk[name]))

load_models(disk) == LoadFrom(disk, 1, EmptyRegistry)

(***************************************************************************)
(* Feature builder                                                         *)
(***************************************************************************)
\* The 1 x 11 array; the historical_avg entry (position 6) is in tenths.
DefaultFeatures ==
    [vec |-> <<N(25), N(60), N(10), N(30000), N(28000), N(15),
               N(12), N(1), N(6), N(0), N(1)>>,
     scaled |-> FALSE]

IsNumeric(feats) == \A i \in 1..Len(feats.vec) : feats.vec[i].t = "num"

\* scaler.transform(feature_array)
Transform(scaler, feats) ==
    IF scaler = "scaler_throwing" \/ ~IsNumeric(feats)
    THEN [raised |-> TRUE, value |-> feats]
    ELSE [raised |-> FALSE, value |-> [feats EXCEPT !.scaled = TRUE]]

\* prepare_features handing on the unscaled array when the scaler raises
prepare_featuresUnscaled(d, reg) ==
    IF ~HasKey(d, "datetime") THEN DefaultFeatures
    ELSE LET dt == ParseDatetime(Lookup(d, "datetime")) IN
         IF dt.raised THEN DefaultFeatures
         ELSE LET feature_array ==
                      [vec |-> <<Get(d, "temperature", N(25)),
                                 Get(d, "humidity", N(60)),
                                 Get(d, "wind_speed", N(10)),
                                 Get(d, "demand_forecast", N(30000)),
                                 Get(d, "generation_capacity", N(28000)),
                                 Get(d, "historical_avg", N(15)),
                                 N(dt.hour), N(dt.dayofweek), N(dt.month),
                                 N(IF IsPeak(dt.hour) THEN 1 ELSE 0),
                                 N(IF dt.dayofweek < 5 THEN 1 ELSE 0)>>,
                       scaled |-> FALSE]
              IN IF "scaler" \in DOMAIN reg
                 THEN LET t == Transform(reg["scaler"], feature_array) IN
                      IF t.raised THEN feature_array ELSE t.value
                 ELSE feature_array

\* Lines 49-85: the array of line 72, scaled when a scaler is registered; the
\* default array of line 85 on any exception
prepare_features(d, reg) ==
    IF ~HasKey(d, "datetime") THEN DefaultFeatures
    ELSE LET dt == ParseDatetime(Lookup(d, "datetime")) IN
         IF dt.raised THEN DefaultFeatures
         ELSE LET feature_array ==
                      [vec |-> <<Get(d, "temperature", N(25)),
                                 Get(d, "humidity", N(60)),
                                 Get(d, "wind_speed", N(10)),
                                 Get(d, "demand_forecast", N(30000)),
                                 Get(d, "generation_capacity", N(28000)),
                                 Get(d, "historical_avg", N(15)),
                                 N(dt.hour), N(dt.dayofweek), N(dt.month),
                                 N(IF IsPeak(dt.hour) THEN 1 ELSE 0),
                                 N(IF dt.dayofweek < 5 THEN 1 ELSE 0)>>,
                       scaled |-> FALSE]
              IN IF "scaler" \in DOMAIN reg
                 THEN LET t == Transform(reg["scaler"], feature_array) IN
                      IF t.raised THEN DefaultFeatures ELSE t.value
                 ELSE feature_array

(***************************************************************************)
(* Loaded predictors: deterministic functions of the feature array         *)
(***************************************************************************)
HasPredictProba(obj) == obj = "proba"

\* model.predict(features)[0]: the class label, not necessarily in 0..8
Predict(obj, feats) ==
    IF obj = "throwing" \/ ~IsNumeric(feats)
    THEN [raised |-> TRUE, label |-> 0]
    ELSE [raised |-> FALSE,
          label |-> IF obj = "plain"
                    THEN (IF feats = DefaultFeatures THEN 1 ELSE 9)
                    ELSE (IF feats = DefaultFeatures THEN 2 ELSE 0 - 1)]

\* np.max(model.predict_proba(features)[0]), in 1e-4 units
MaxProba(obj, feats) == IF feats = DefaultFeatures THEN 6004 ELSE 9127

(***************************************************************************)
(* Results                                                                 *)
(***************************************************************************)
Min(a, b) == IF a < b THEN a ELSE b
Max(a, b) == IF a > b THEN a ELSE b

\* round(num / den) to the nearest integer, ties to even; num >= 0, den > 0
RoundDiv(num, den) ==
    LET q == num \div den
        r == num % den
    IN IF 2 * r < den THEN q
       ELSE IF 2 * r > den THEN q + 1
       ELSE IF q % 2 = 0 THEN q ELSE q + 1

\* round(confidence, 3): 1e-4 units to thousandths
Round3(c) == RoundDiv(c, 10)

NoResult ==
    [predicted_stage |-> 0, confidence_score |-> 0, model_used |-> "none",
     features_used |-> 0, deficit_ratio |-> 0 - 1, is_peak_hour |-> "absent",
     error |-> ""]

DefaultConfidence == 8000      \* confidence = 0.8

\* TryModel without the clamp of line 120
TryModelUnclamped(model_name, obj, feats) ==
    LET p == Predict(obj, feats)
        confidence == IF HasPredictProba(obj) THEN MaxProba(obj, feats)
                      ELSE DefaultConfidence
    IN IF p.raised THEN [raised |-> TRUE, label |-> 0, result |-> NoResult]
       ELSE [raised |-> FALSE, label |-> p.label,
             result |-> [NoResult EXCEPT
                            !.predicted_stage = p.label,
                            !.confidence_score = Round3(confidence),
                            !.model_used = model_name,
                            !.features_used = Len(feats.vec)]]

\* TryModel tagging every result with the first preference
TryModelMistagged(model_name, obj, feats) ==
    LET p == Predict(obj, feats)
        confidence == IF HasPredictProba(obj) THEN MaxProba(obj, feats)
                      ELSE DefaultConfidence
    IN IF p.raised THEN [raised |-> TRUE, label |-> 0, result |-> NoResult]
       ELSE [raised |-> FALSE, label |-> p.label,
             result |-> [NoResult EXCEPT
                            !.predicted_stage = Max(0, Min(8, p.label)),
                            !.confidence_score = Round3(confidence),
                            !.model_used = ModelNames[1],
                            !.features_used = Len(feats.vec)]]

\* One iteration of the model loop for a registered model
TryModel(model_name, obj, feats) ==
    LET p == Predict(obj, feats)
        confidence == IF HasPredictProba(obj) THEN MaxProba(obj, feats)
                      ELSE DefaultConfidence
    IN IF p.raised THEN [raised |-> TRUE, label |-> 0, result |-> NoResult]
       ELSE [raised |-> FALSE, label |-> p.label,
             result |-> [NoResult EXCEPT
                            !.predicted_stage = Max(0, Min(8, p.label)),
                            !.confidence_score = Round3(confidence),
                            !.model_used = model_name,
                            !.features_used = Len(feats.vec)]]

(***************************************************************************)
(* Rule-based estimator                                                    *)
(***************************************************************************)
EstimatorError(e) ==
    [raised |-> TRUE, error |-> e, stage |-> 0, confidence |-> 0,
     deficit_ratio |-> <<0, 1>>, adjusted_ratio |-> <<0, 1>>, is_peak |-> FALSE]

\* ratio < h / 100, for a ratio <<numerator, denominator>>, denominator > 0
Below(ratio, h) == ratio[1] * 100 < h * ratio[2]

\* Deficit without the max(0, ...)
DeficitUnclamped(demand, generation) == demand - generation

\* deficit = max(0, demand - generation)
Deficit(demand, generation) == Max(0, demand - generation)

\* StageBand with the 0.08 and 0.12 thresholds exchanged
StageBandSwapped(adjusted_ratio) ==
    IF Below(adjusted_ratio, 2) THEN <<0, 8500>>
    ELSE IF Below(adjusted_ratio, 5) THEN <<1, 7500>>
    ELSE IF Below(adjusted_ratio, 12) THEN <<2, 7000>>
    ELSE IF Below(adjusted_ratio, 8) THEN <<3, 6500>>
    ELSE IF Below(adjusted_ratio, 16) THEN <<4, 6000>>
    ELSE <<Min(8, (adjusted_ratio[1] * 25) \div adjusted_ratio[2]), 5500>>

\* StageBand with every bound inclusive
StageBandInclusive(adjusted_ratio) ==
    IF adjusted_ratio[1] * 100 <= 2 * adjusted_ratio[2] THEN <<0, 8500>>
    ELSE IF adjusted_ratio[1] * 100 <= 5 * adjusted_ratio[2] THEN <<1, 7500>>
    ELSE IF adjusted_ratio[1] * 100 <= 8 * adjusted_ratio[2] THEN <<2, 7000>>
    ELSE IF adjusted_ratio[1] * 100 <= 12 * adjusted_ratio[2] THEN <<3, 6500>>
    ELSE IF adjusted_ratio[1] * 100 <= 16 * adjusted_ratio[2] THEN <<4, 6000>>
    ELSE <<Min(8, (adjusted_ratio[1] * 25) \div adjusted_ratio[2]), 5500>>

\* Lines 165-182: the threshold chain, <<stage, confidence in 1e-4 units>>
StageBand(adjusted_ratio) ==
    IF Below(adjusted_ratio, 2) THEN <<0, 8500>>
    ELSE IF Below(adjusted_ratio, 5) THEN <<1, 7500>>
    ELSE IF Below(adjusted_ratio, 8) THEN <<2, 7000>>
    ELSE IF Below(adjusted_ratio, 12) THEN <<3, 6500>>
    ELSE IF Below(adjusted_ratio, 16) THEN <<4, 6000>>
    ELSE <<Min(8, (adjusted_ratio[1] * 25) \div adjusted_ratio[2]), 5500>>

\* RuleEstimate taking the timestamp from "date_time" when "datetime" is
\* missing
RuleEstimateEitherKey(d) ==
    LET demand == Get(d, "demand_forecast", N(30000))
        generation == Get(d, "generation_capacity", N(28000))
        ts == IF HasKey(d, "datetime") THEN "datetime" ELSE "date_time"
    IN IF ~HasKey(d, ts) THEN EstimatorError("KeyError")
       ELSE LET dt == ParseDatetime(Lookup(d, ts)) IN
       IF dt.raised THEN EstimatorError(dt.error)
       ELSE IF demand.t # "num" \/ generation.t # "num" THEN EstimatorError("TypeError")
       ELSE LET deficit == Deficit(demand.n, generation.n)
                deficit_ratio == IF demand.n > 0 THEN <<deficit, demand.n>> ELSE <<0, 1>>
                is_peak == IsPeak(dt.hour)
                peak_multiplier == IF is_peak THEN 13 ELSE 10     \* tenths
                adjusted_ratio == <<deficit_ratio[1] * peak_multiplier,
                                    deficit_ratio[2] * 10>>
                band == StageBand(adjusted_ratio)
            IN [raised |-> FALSE, error |-> "", stage |-> band[1],
                confidence |-> band[2], deficit_ratio |-> deficit_ratio,
                adjusted_ratio |-> adjusted_ratio, is_peak |-> is_peak]

\* Lines 149-182: the estimate before perturbation; ratios are exact
\* fractions <<numerator, denominator>>, confidence in 1e-4 units
RuleEstimate(d) ==
    LET demand == Get(d, "demand_forecast", N(30000))
        generation == Get(d, "generation_capacity", N(28000))
    IN IF ~HasKey(d, "datetime") THEN EstimatorError("KeyError")
       ELSE LET dt == ParseDatetime(Lookup(d, "datetime")) IN
       IF dt.raised THEN EstimatorError(dt.error)
       ELSE IF demand.t # "num" \/ generation.t # "num" THEN EstimatorError("TypeError")
       ELSE LET deficit == Deficit(demand.n, generation.n)
                deficit_ratio == IF demand.n > 0 THEN <<deficit, demand.n>> ELSE <<0, 1>>
                is_peak == IsPeak(dt.hour)
                peak_multiplier == IF is_peak THEN 13 ELSE 10     \* tenths
                adjusted_ratio == <<deficit_ratio[1] * peak_multiplier,
                                    deficit_ratio[2] * 10>>
                band == StageBand(adjusted_ratio)
            IN [raised |-> FALSE, error |-> "", stage |-> band[1],
                confidence |-> band[2], deficit_ratio |-> deficit_ratio,
                adjusted_ratio |-> adjusted_ratio, is_peak |-> is_peak]

\* Perturb shifting by two stages
PerturbDouble(est, fires, shift) ==
    IF fires
    THEN [est EXCEPT !.stage = Max(0, Min(8, est.stage + 2 * shift)),
                     !.confidence = (est.confidence * 9) \div 10]
    ELSE est

\* Perturb lowering the confidence only when the stage moved
PerturbUnlessClamped(est, fires, shift) ==
    IF fires /\ Max(0, Min(8, est.stage + shift)) # est.stage
    THEN [est EXCEPT !.stage = Max(0, Min(8, est.stage + shift)),
                     !.confidence = (est.confidence * 9) \div 10]
    ELSE est

\* Lines 185-187: fires is random.random() < 0.1, shift is
\* random.choice([-1, 1])
Perturb(est, fires, shift) ==
    IF fires
    THEN [est EXCEPT !.stage = Max(0, Min(8, est.stage + shift)),
                     !.confidence = (est.confidence * 9) \div 10]
    ELSE est

\* round(deficit_ratio, 4), in ten-thousandths
Round4(ratio) == RoundDiv(ratio[1] * 10000, ratio[2])

\* RuleResult tagged with a model name
RuleResultMistagged(e) ==
    [NoResult EXCEPT !.predicted_stage = e.stage,
                     !.confidence_score = Round3(e.confidence),
                     !.model_used = ModelNames[2],
                     !.deficit_ratio = Round4(e.deficit_ratio),
                     !.is_peak_hour = IF e.is_peak THEN "True" ELSE "False"]

\* Lines 189-196: the dict the rule-based path returns
RuleResult(e) ==
    [NoResult EXCEPT !.predicted_stage = e.stage,
                     !.confidence_score = Round3(e.confidence),
                     !.model_used = "rule_based_fallback",
                     !.deficit_ratio = Round4(e.deficit_ratio),
                     !.is_peak_hour = IF e.is_peak THEN "True" ELSE "False"]

\* EmergencyResult without the error annotation
EmergencyResultBare(pick, error) ==
    [NoResult EXCEPT !.predicted_stage = pick,
                     !.confidence_score = 500,
                     !.model_used = "emergency_fallback"]

\* Lines 203-209: the dict the except handler returns; pick is
\* random.choice([0, 1, 2, 2, 3]), error is str(e)
EmergencyResult(pick, error) ==
    [NoResult EXCEPT !.predicted_stage = pick,
                     !.confidence_score = 500,
                     !.model_used = "emergency_fallback",
                     !.error = error]

\* The whole of _fallback_prediction
fallback_prediction(d, fires, shift, pick) ==
    LET est == RuleEstimate(d) IN
    IF est.raised
    THEN [raised |-> FALSE, result |-> EmergencyResult(pick, est.error)]
    ELSE [raised |-> FALSE, result |-> RuleResult(Perturb(est, fires, shift))]

EmergencyPicks == {0, 1, 2, 3}
Shifts == {0 - 1, 1}

\* Lines 96-143 without the cache: the dicts predict_loadshedding can return
\* when every lookup misses
RECURSIVE ResolveFrom(_, _, _, _)
ResolveFrom(d, reg, feats, i) ==
    IF i > Len(ModelNames)
    THEN {fallback_prediction(d, fires, shift, pick).result :
             fires \in BOOLEAN, shift \in Shifts, pick \in EmergencyPicks}
    ELSE IF ModelNames[i] \notin DOMAIN reg THEN ResolveFrom(d, reg, feats, i + 1)
    ELSE LET t == TryModel(ModelNames[i], reg[ModelNames[i]], feats) IN
         IF t.raised THEN ResolveFrom(d, reg, feats, i + 1) ELSE {t.result}

Resolve(d, reg) == ResolveFrom(d, reg, prepare_features(d, reg), 1)

(***************************************************************************)
(* Cache layer                                                             *)
(***************************************************************************)
ResultFields == <<"predicted_stage", "confidence_score", "model_used",
                  "features_used", "deficit_ratio", "is_peak_hour", "error">>

\* json.dumps stopping after the second member
JsonDumpsTruncated(r) == [i \in 1..2 |-> <<ResultFields[i], r[ResultFields[i]]>>]

\* json.dumps(value, default=str): the members of the object, in order
JsonDumps(r) == [i \in 1..Len(ResultFields) |-> <<ResultFields[i], r[ResultFields[i]]>>]

\* json.loads(text)
JsonLoads(text) ==
    [f \in {text[i][1] : i \in 1..Len(text)} |->
        text[CHOOSE i \in 1..Len(text) : text[i][1] = f][2]]

\* CacheService.get without its try block: the Redis error escapes
CacheGetUnguarded(connected, store, key, fault) ==
    IF ~connected THEN [raised |-> FALSE, value |-> NoResult]
    ELSE IF fault THEN [raised |-> TRUE, value |-> NoResult]
    ELSE IF key \in DOMAIN store
         THEN [raised |-> FALSE, value |-> JsonLoads(store[key].value)]
         ELSE [raised |-> FALSE, value |-> NoResult]

\* CacheService.get; fault: the Redis call raises
CacheGet(connected, store, key, fault) ==
    IF ~connected THEN [raised |-> FALSE, value |-> NoResult]
    ELSE IF fault THEN [raised |-> FALSE, value |-> NoResult]
    ELSE IF key \in DOMAIN store
         THEN [raised |-> FALSE, value |-> JsonLoads(store[key].value)]
         ELSE [raised |-> FALSE, value |-> NoResult]

CacheTTL == 300        \* settings.CACHE_TTL
PredictionTTL == 300   \* ttl=300 in predict_loadshedding

\* CacheService.set without its try block: the Redis error escapes
CacheSetUnguarded(connected, store, key, value, ttl, fault) ==
    IF ~connected THEN [raised |-> FALSE, ok |-> FALSE, store |-> store]
    ELSE IF fault THEN [raised |-> TRUE, ok |-> FALSE, store |-> store]
    ELSE LET t == IF ttl # 0 THEN ttl ELSE CacheTTL
             entry == [value |-> JsonDumps(value), ttl |-> t]
         IN [raised |-> FALSE, ok |-> TRUE,
             store |-> [k \in DOMAIN store \cup {key} |->
                           IF k = key THEN entry ELSE store[k]]]

\* CacheService.set adding the default to the ttl it is given
CacheSetLongTTL(connected, store, key, value, ttl, fault) ==
    IF ~connected THEN [raised |-> FALSE, ok |-> FALSE, store |-> store]
    ELSE IF fault THEN [raised |-> FALSE, ok |-> FALSE, store |-> store]
    ELSE LET t == ttl + CacheTTL
             entry == [value |-> JsonDumps(value), ttl |-> t]
         IN [raised |-> FALSE, ok |-> TRUE,
             store |-> [k \in DOMAIN store \cup {key} |->
                           IF k = key THEN entry ELSE store[k]]]

\* CacheService.set (setex); ttl = 0 stands for ttl=None
CacheSet(connected, store, key, value, ttl, fault) ==
    IF ~connected THEN [raised |-> FALSE, ok |-> FALSE, store |-> store]
    ELSE IF fault THEN [raised |-> FALSE, ok |-> FALSE, store |-> store]
    ELSE LET t == IF ttl # 0 THEN ttl ELSE CacheTTL
             entry == [value |-> JsonDumps(value), ttl |-> t]
         IN [raised |-> FALSE, ok |-> TRUE,
             store |-> [k \in DOMAIN store \cup {key} |->
                           IF k = key THEN entry ELSE store[k]]]

\* Redis expiry: seconds pass, entries whose time to live runs out vanish
Elapse(store, seconds) ==
    [k \in {j \in DOMAIN store : store[j].ttl > seconds} |->
        [store[k] EXCEPT !.ttl = @ - seconds]]

(***************************************************************************)
(* Input records                                                           *)
(***************************************************************************)
Record(ts, demand, generation) ==
    <<<<"datetime", ts>>, <<"demand_forecast", demand>>,
      <<"generation_capacity", generation>>>>

PeakInput == Record(Timestamp(0, 8), N(31000), N(28000))
\* the same fields as PeakInput, inserted in another order
PeakReordered ==
    <<<<"generation_capacity", N(28000)>>, <<"demand_forecast", N(31000)>>,
      <<"datetime", Timestamp(0, 8)>>>>
SevereInput == Record(Timestamp(1, 19), N(40000), N(20000))
NonNumericInput == Record(Timestamp(0, 8), Abc, N(28000))
\* the record create_prediction builds: the timestamp is under "date_time"
RouterInput ==
    <<<<"date_time", Timestamp(0, 8)>>, <<"demand_forecast", N(31000)>>,
      <<"generation_capacity", N(28000)>>>>

\* a record whose timestamp pandas cannot parse
MalformedInput == Record(Abc, N(31000), N(28000))

Inputs == {PeakInput, PeakReordered, SevereInput, NonNumericInput, RouterInput}

SameFields(d1, d2) == SortedItems(d1) = SortedItems(d2)

\* The (field, value) pairs of a record, as a set
PairSet(d) == {d[i] : i \in 1..Len(d)}

\* Inputs of the estimator harness: every hour of two days, demand and
\* generation around the default operating point, and the malformed records
Demands == {0, 20000, 28000, 30000, 31000, 40000}
Generations == {20000, 28000, 31000}
\* <<demand, generation>> whose ratio, itself or times 1.3, is a threshold of
\* the chain or a multiple of 1/25 above the last threshold
BoundaryPairs ==
    {<<25000, 24500>>, <<25000, 23750>>, <<25000, 23000>>, <<25000, 22000>>,
     <<25000, 21000>>, <<25000, 20000>>, <<25000, 19000>>, <<25000, 17000>>,
     <<65000, 64000>>, <<26000, 25000>>, <<65000, 61000>>, <<65000, 59000>>,
     <<65000, 57000>>, <<65000, 55000>>, <<65000, 49000>>}
EstInputs ==
    {Record(Timestamp(day, h), N(dem), N(gen)) :
        day \in {0, 1}, h \in 0..23, dem \in Demands, gen \in Generations}
    \cup {Record(Timestamp(0, h), N(b[1]), N(b[2])) : h \in 0..23, b \in BoundaryPairs}
    \cup Inputs

(***************************************************************************)
(* State machine                                                           *)
(***************************************************************************)
NoData == <<>>
NoKey == 0 - 1

NoStatus == [models_loaded |-> 0 - 1, available_models |-> <<>>,
             model_details |-> EmptyRegistry]

\* get_model_status dropping the scaler from the registry it reports on
get_model_statusPopping(reg) ==
    LET kept == [n \in DOMAIN reg \ {"scaler"} |-> reg[n]] IN
    [registry |-> kept,
     status |->
        [models_loaded |-> Cardinality(DOMAIN kept),
         available_models |-> SelectSeq(ArtifactNames, LAMBDA n : n \in DOMAIN kept),
         model_details |->
            [n \in DOMAIN kept |->
                [type |-> kept[n], status |-> "loaded",
                 has_predict_proba |-> IF HasPredictProba(kept[n]) THEN "True" ELSE "False"]]]]

\* get_model_status: the returned dict, and the registry as the call leaves it
get_model_status(reg) ==
    [registry |-> reg,
     status |->
        [models_loaded |-> Cardinality(DOMAIN reg),
         available_models |-> SelectSeq(ArtifactNames, LAMBDA n : n \in DOMAIN reg),
         model_details |->
            [n \in DOMAIN reg |->
                IF n = "scaler"
                THEN [type |-> "preprocessor", status |-> "loaded",
                      has_predict_proba |-> "absent"]
                ELSE [type |-> reg[n], status |-> "loaded",
                      has_predict_proba |-> IF HasPredictProba(reg[n]) THEN "True" ELSE "False"]]]]

Init ==
    /\ artifact \in Disks
    /\ models = load_models(artifact)
    /\ is_connected \in BOOLEAN
    /\ cache = <<>>
    /\ pc = [c \in Callers |-> "idle"]
    /\ data = [c \in Callers |-> NoData]
    /\ features = [c \in Callers |-> DefaultFeatures]
    /\ idx = [c \in Callers |-> 1]
    /\ result = [c \in Callers |-> NoResult]
    /\ trace = [c \in Callers |-> <<>>]
    /\ predicted = {}
    /\ started = 0
    /\ hash_seed = FirstSeed
    /\ cache_key = [c \in Callers |-> NoKey]
    /\ written = <<>>
    /\ status = NoStatus
    /\ est_in = NoData
    /\ est_out = [est |-> EstimatorError(""), result |-> NoResult,
                  fires |-> FALSE, shift |-> 0]

\* A caller enters predict_loadshedding with an input record; lines 89-94:
\* key derivation and cache lookup (outside the try block)
Call(c, d) ==
    /\ pc[c] = "idle"
    /\ started < MaxCalls
    /\ started' = started + 1
    /\ data' = [data EXCEPT ![c] = d]
    /\ cache_key' = [cache_key EXCEPT ![c] = CacheKey(hash_seed, d)]
    /\ trace' = [trace EXCEPT ![c] = <<"cache">>]
    /\ \E fault \in BOOLEAN :
         LET g == CacheGet(is_connected, cache, CacheKey(hash_seed, d), fault) IN
         IF g.raised
         THEN /\ pc' = [pc EXCEPT ![c] = "raised"]
              /\ UNCHANGED result
         ELSE IF g.value # NoResult
         THEN /\ pc' = [pc EXCEPT ![c] = "done"]
              /\ result' = [result EXCEPT ![c] = g.value]
         ELSE /\ pc' = [pc EXCEPT ![c] = "features"]
              /\ UNCHANGED result
    /\ UNCHANGED <<artifact, models, is_connected, cache, features, idx,
                   predicted, hash_seed, written, status, est_in, est_out>>

\* Line 98
PrepareFeatures(c) ==
    /\ pc[c] = "features"
    /\ features' = [features EXCEPT ![c] = prepare_features(data[c], models)]
    /\ idx' = [idx EXCEPT ![c] = 1]
    /\ pc' = [pc EXCEPT ![c] = "models"]
    /\ UNCHANGED <<artifact, models, is_connected, cache, data, result, trace,
                   predicted, started, hash_seed, cache_key, written, status,
                   est_in, est_out>>

\* Lines 103-136: one iteration of the loop over model_preferences; leaving
\* the loop leads to line 139.  The cache write of line 131 is inside the
\* try block of the iteration: an exception escaping from it would be
\* handled like one raised by the model.
ModelStep(c) ==
    /\ pc[c] = "models"
    /\ LET model_name == ModelNames[idx[c]]
           next == IF idx[c] = Len(ModelNames) THEN "fallback" ELSE "models"
       IN IF model_name \notin DOMAIN models
          THEN /\ pc' = [pc EXCEPT ![c] = next]
               /\ idx' = [idx EXCEPT ![c] = @ + 1]
               /\ UNCHANGED <<cache, result, trace, predicted, written>>
          ELSE LET t == TryModel(model_name, models[model_name], features[c]) IN
               /\ trace' = [trace EXCEPT ![c] = Append(@, model_name)]
               /\ IF t.raised
                  THEN /\ pc' = [pc EXCEPT ![c] = next]
                       /\ idx' = [idx EXCEPT ![c] = @ + 1]
                       /\ UNCHANGED <<cache, result, predicted, written>>
                  ELSE \E fault \in BOOLEAN :
                         LET s == CacheSet(is_connected, cache, cache_key[c],
                                           t.result, PredictionTTL, fault)
                         IN /\ predicted' = predicted \cup {<<model_name, t.label>>}
                            /\ IF s.raised
                               THEN /\ pc' = [pc EXCEPT ![c] = next]
                                    /\ idx' = [idx EXCEPT ![c] = @ + 1]
                                    /\ UNCHANGED <<cache, result, written>>
                               ELSE /\ cache' = s.store
                                    /\ written' =
                                          IF s.ok
                                          THEN [k \in DOMAIN written \cup {cache_key[c]} |->
                                                   IF k = cache_key[c] THEN PairSet(data[c])
                                                   ELSE written[k]]
                                          ELSE written
                                    /\ result' = [result EXCEPT ![c] = t.result]
                                    /\ pc' = [pc EXCEPT ![c] = "done"]
                                    /\ UNCHANGED idx
    /\ UNCHANGED <<artifact, models, is_connected, data, features, started,
                   hash_seed, cache_key, status, est_in, est_out>>

\* Lines 139 and 145-209
Fallback(c) ==
    /\ pc[c] = "fallback"
    /\ \E fires \in BOOLEAN, shift \in Shifts, pick \in EmergencyPicks :
         LET f == fallback_prediction(data[c], fires, shift, pick) IN
         /\ pc' = [pc EXCEPT ![c] = IF f.raised THEN "raised" ELSE "done"]
         /\ result' = [result EXCEPT ![c] = f.result]
         /\ trace' = [trace EXCEPT ![c] =
                         IF f.result.model_used = "emergency_fallback"
                         THEN @ \o <<"rule", "emergency">>
                         ELSE Append(@, "rule")]
    /\ UNCHANGED <<artifact, models, is_connected, cache, data, features, idx,
                   predicted, started, hash_seed, cache_key, written, status,
                   est_in, est_out>>

\* The caller takes the returned dict
Return(c) ==
    /\ pc[c] = "done"
    /\ pc' = [pc EXCEPT ![c] = "idle"]
    /\ data' = [data EXCEPT ![c] = NoData]
    /\ features' = [features EXCEPT ![c] = DefaultFeatures]
    /\ idx' = [idx EXCEPT ![c] = 1]
    /\ result' = [result EXCEPT ![c] = NoResult]
    /\ trace' = [trace EXCEPT ![c] = <<>>]
    /\ cache_key' = [cache_key EXCEPT ![c] = NoKey]
    /\ UNCHANGED <<artifact, models, is_connected, cache, predicted, started,
                   hash_seed, written, status, est_in, est_out>>

\* Time passes in Redis: TickSeconds seconds go by
Tick ==
    /\ DOMAIN cache # {}
    /\ cache' = Elapse(cache, TickSeconds)
    /\ written' = [k \in DOMAIN cache' |-> written[k]]
    /\ UNCHANGED <<artifact, models, is_connected, pc, data, features, idx,
                   result, trace, predicted, started, hash_seed, cache_key,
                   status, est_in, est_out>>

\* GET /models/status: one call of get_model_status
GetModelStatus ==
    /\ LET r == get_model_status(models) IN
         /\ status' = r.status
         /\ models' = r.registry
    /\ UNCHANGED <<artifact, is_connected, cache, pc, data, features, idx,
                   result, trace, predicted, started, hash_seed, cache_key,
                   written, est_in, est_out>>

\* The API process is restarted: calls in flight die with it, the module is
\* imported again (MLService() and CacheService() are constructed anew, the
\* interpreter draws a new hash seed), Redis keeps its content
Restart ==
    /\ models' = load_models(artifact)
    /\ is_connected' \in BOOLEAN
    /\ hash_seed' \in HashSeeds
    /\ pc' = [c \in Callers |-> "idle"]
    /\ data' = [c \in Callers |-> NoData]
    /\ features' = [c \in Callers |-> DefaultFeatures]
    /\ idx' = [c \in Callers |-> 1]
    /\ result' = [c \in Callers |-> NoResult]
    /\ trace' = [c \in Callers |-> <<>>]
    /\ cache_key' = [c \in Callers |-> NoKey]
    /\ status' = NoStatus
    /\ UNCHANGED <<artifact, cache, predicted, started, written, est_in, est_out>>

\* Estimator harness: one application of _fallback_prediction to a fresh
\* input record
EstApply(d) ==
    /\ est_in = NoData
    /\ \E fires \in BOOLEAN, shift \in Shifts, pick \in EmergencyPicks :
         /\ est_in' = d
         /\ est_out' = [est |-> RuleEstimate(d),
                        result |-> fallback_prediction(d, fires, shift, pick).result,
                        fires |-> fires,
                        shift |-> IF fires THEN shift ELSE 0]
    /\ UNCHANGED <<artifact, models, is_connected, cache, pc, data, features,
                   idx, result, trace, predicted, started, hash_seed, cache_key,
                   written, status>>

Next ==
    \/ \E c \in Callers, d \in Inputs : Call(c, d)
    \/ \E c \in Callers : PrepareFeatures(c)
    \/ \E c \in Callers : ModelStep(c)
    \/ \E c \in Callers : Fallback(c)
    \/ \E c \in Callers : Return(c)
    \/ Tick

\* One lifetime of the API process
Spec == Init /\ [][Next]_vars

\* The estimator on its own: no artifacts on disk, no cache
InitEst ==
    /\ Init
    /\ \A n \in DOMAIN artifact : artifact[n] = "absent"
    /\ ~is_connected

NextEst == \E d \in EstInputs : EstApply(d)

EstSpec == InitEst /\ [][NextEst]_vars

\* The service with its status endpoint in use, on a registry loaded from
\* three artifacts that all load and with a reachable Redis
InitStatus ==
    /\ Init
    /\ \A n \in DOMAIN artifact : artifact[n] \notin {"absent", "corrupt"}
    /\ is_connected

NextStatus == Next \/ GetModelStatus

StatusSpec == InitStatus /\ [][NextStatus]_vars

\* Concurrent calls on a reachable Redis, with a random forest that answers,
\* an xgboost model that answers or raises, and no scaler.  Every call runs
\* on a thread of control of its own and its code neither locks nor waits, so
\* a call that has a step to take eventually takes it.
InitConc ==
    /\ Init
    /\ artifact["xgboost"] \in {"proba", "throwing"}
    /\ artifact["random_forest"] = "plain"
    /\ artifact["scaler"] = "absent"
    /\ is_connected

Progress(c) == PrepareFeatures(c) \/ ModelStep(c) \/ Fallback(c)

ConcSpec ==
    InitConc /\ [][Next]_vars /\ \A c \in Callers : WF_vars(Progress(c))

\* The service across restarts of the API process, on a disk that holds a
\* working xgboost model and nothing else
InitRestart ==
    /\ Init
    /\ artifact = [n \in {"xgboost", "random_forest", "scaler"} |->
                      IF n = "xgboost" THEN "proba" ELSE "absent"]
    /\ is_connected

NextRestart == Next \/ Restart

RestartSpec == InitRestart /\ [][NextRestart]_vars

(***************************************************************************)
(* Properties                                                              *)
(***************************************************************************)
Done(c) == pc[c] = "done"
PredictorTags == {ModelNames[i] : i \in 1..Len(ModelNames)}
FallbackTags == {"rule_based_fallback", "emergency_fallback"}
Clamp(label) == IF label < 0 THEN 0 ELSE IF label > 8 THEN 8 ELSE label
Last(t) == t[Len(t)]

\* C1: no call ends by raising: a call never reaches the state in which an
\* exception has escaped to the caller, a call inside the model loop always
\* has a next iteration to run, and what a call returns is a result tagged
\* by one of the strategies.
Totality ==
    \A c \in Callers :
        /\ pc[c] # "raised"
        /\ pc[c] = "models" => idx[c] \in 1..Len(ModelNames)
        /\ Done(c) => result[c].model_used \in PredictorTags \cup FallbackTags

\* A call that went through every failure: both models raised, then the
\* estimator raised, and a result was returned all the same.
TotalityWitness ==
    \E c \in Callers :
        /\ Done(c)
        /\ trace[c] = <<"cache", "xgboost", "random_forest", "rule", "emergency">>
        /\ result[c].model_used = "emergency_fallback"

\* C2: every returned result has predicted_stage in 0..8 and
\* confidence_score in [0, 1] (0..1000 thousandths).
StageAndConfidenceBounds ==
    \A c \in Callers :
        Done(c) => /\ result[c].predicted_stage \in 0..8
                   /\ result[c].confidence_score \in 0..1000

\* A model returned the label 9 and the result carries stage 8.
BoundsWitness ==
    \E c \in Callers :
        /\ Done(c)
        /\ result[c].model_used = "random_forest"
        /\ result[c].predicted_stage = 8
        /\ <<"random_forest", 9>> \in predicted

\* C3 as stated: two calls with the same fields return the same model_used
\* and the same predicted_stage.
IdempotenceOriginal ==
    \A c1, c2 \in Callers :
        (Done(c1) /\ Done(c2) /\ SameFields(data[c1], data[c2]))
            => /\ result[c1].model_used = result[c2].model_used
               /\ result[c1].predicted_stage = result[c2].predicted_stage

\* C3 amended: two calls with the same fields return the same model_used;
\* model-tagged results (computed or read from the cache) agree on stage and
\* confidence; rule-based results each lie within one stage of the
\* unperturbed estimate; emergency results are drawn from 0..3 at 0.5.
IdempotenceAmended ==
    \A c1, c2 \in Callers :
        (Done(c1) /\ Done(c2) /\ SameFields(data[c1], data[c2]))
            => LET r1 == result[c1]
                   r2 == result[c2]
                   est == RuleEstimate(data[c1])
               IN /\ r1.model_used = r2.model_used
                  /\ r1.model_used \in PredictorTags
                        => /\ r1.predicted_stage = r2.predicted_stage
                           /\ r1.confidence_score = r2.confidence_score
                  /\ r1.model_used = "rule_based_fallback"
                        => \A r \in {r1, r2} :
                              /\ r.predicted_stage - est.stage \in {0 - 1, 0, 1}
                              /\ r.confidence_score \in
                                    {Round3(est.confidence), Round3((est.confidence * 9) \div 10)}
                  /\ r1.model_used = "emergency_fallback"
                        => \A r \in {r1, r2} :
                              r.predicted_stage \in 0..3 /\ r.confidence_score = 500

\* Two calls whose records hold the same fields in different insertion
\* order; the second was answered from the cache entry the first wrote.
IdempotenceWitness ==
    \E c1, c2 \in Callers :
        /\ Done(c1) /\ Done(c2)
        /\ data[c1] # data[c2]
        /\ SameFields(data[c1], data[c2])
        /\ Last(trace[c1]) \in PredictorTags
        /\ trace[c2] = <<"cache">>
        /\ result[c2] = result[c1]

\* C4: with no predictor in the registry, no returned result carries a model
\* name.
CascadeNoPredictor ==
    (\A m \in PredictorTags : m \notin DOMAIN models)
        => \A c \in Callers : Done(c) => result[c].model_used \in FallbackTags

\* The registry holds only the scaler and a call returned the rule-based
\* result.
CascadeWitness ==
    /\ DOMAIN models = {"scaler"}
    /\ \E c \in Callers :
          Done(c) /\ result[c].model_used = "rule_based_fallback"

\* C5: model_used names the strategy that produced the result.
ModelUsedTruthful ==
    \A c \in Callers :
        Done(c) =>
            LET r == result[c]
                t == trace[c]
            IN /\ r.model_used \in PredictorTags
                    => /\ r.model_used \in DOMAIN models
                       /\ t = <<"cache">> \/ Last(t) = r.model_used
                       /\ \E p \in predicted :
                             p[1] = r.model_used /\ r.predicted_stage = Clamp(p[2])
               /\ r.model_used = "rule_based_fallback"
                    => /\ Last(t) = "rule"
                       /\ ~RuleEstimate(data[c]).raised
                       /\ \E fires \in BOOLEAN, shift \in Shifts :
                             r = RuleResult(Perturb(RuleEstimate(data[c]), fires, shift))
               /\ r.model_used = "emergency_fallback"
                    => /\ Len(t) >= 2
                       /\ t[Len(t) - 1] = "rule" /\ Last(t) = "emergency"
                       /\ RuleEstimate(data[c]).raised

\* A result tagged random_forest, produced after xgboost raised.
TruthfulWitness ==
    \E c \in Callers :
        /\ Done(c)
        /\ result[c].model_used = "random_forest"
        /\ trace[c] = <<"cache", "xgboost", "random_forest">>

\* C6 as stated: every artifact that exists and loads is in the registry
\* after load_models.
LoadOmitsOnlyFailed ==
    \A n \in DOMAIN artifact :
        artifact[n] \notin {"absent", "corrupt"}
            => n \in DOMAIN models /\ models[n] = artifact[n]

\* The inputs of the estimator harness as numbers
EstDemand == Get(est_in, "demand_forecast", N(30000)).n
EstGeneration == Get(est_in, "generation_capacity", N(28000)).n
EstHour == ParseDatetime(Lookup(est_in, "datetime")).hour
EstRan == est_in # NoData /\ ~est_out.est.raised

PeakCase ==
    /\ EstRan /\ ~est_out.fires
    /\ EstDemand = 31000 /\ EstGeneration = 28000 /\ EstHour = 8

\* C7 as stated: the peak case yields deficit_ratio 0.0968, adjusted_ratio
\* 0.1258, stage 3 and confidence 0.65.
PeakCaseOriginal ==
    PeakCase => /\ Round4(est_out.est.deficit_ratio) = 968
                /\ Round4(est_out.est.adjusted_ratio) = 1258
                /\ est_out.result.predicted_stage = 3
                /\ est_out.result.confidence_score = 650

\* C7 amended: the peak case yields deficit_ratio 0.0968, adjusted_ratio
\* 0.1258, and, 0.1258 being in the band [0.12, 0.16), stage 4 with
\* confidence 0.60.
PeakCaseAmended ==
    PeakCase => /\ Round4(est_out.est.deficit_ratio) = 968
                /\ est_out.result.deficit_ratio = 968
                /\ Round4(est_out.est.adjusted_ratio) = 1258
                /\ est_out.result.predicted_stage = 4
                /\ est_out.result.confidence_score = 600
                /\ est_out.result.model_used = "rule_based_fallback"

PeakCaseWitness == PeakCase /\ est_out.result.is_peak_hour = "True"

OffPeakCase ==
    /\ EstRan /\ ~est_out.fires
    /\ EstDemand = 31000 /\ EstGeneration = 28000 /\ EstHour = 2

\* C8 as stated: the off-peak case yields adjusted_ratio 0.0968, stage 2 and
\* confidence 0.70.
OffPeakCaseOriginal ==
    OffPeakCase => /\ Round4(est_out.est.adjusted_ratio) = 968
                   /\ est_out.result.predicted_stage = 2
                   /\ est_out.result.confidence_score = 700

\* C8 amended: the off-peak case yields adjusted_ratio 0.0968, and, 0.0968
\* being in the band [0.08, 0.12), stage 3 with confidence 0.65.
OffPeakCaseAmended ==
    OffPeakCase => /\ Round4(est_out.est.adjusted_ratio) = 968
                   /\ est_out.result.predicted_stage = 3
                   /\ est_out.result.confidence_score = 650
                   /\ est_out.result.model_used = "rule_based_fallback"

OffPeakCaseWitness == OffPeakCase /\ est_out.result.is_peak_hour = "False"

\* C9: whenever generation >= demand, at any hour, the estimator reports
\* deficit_ratio 0 and, absent perturbation, stage 0 with confidence 0.85.
ZeroDeficit ==
    (EstRan /\ EstGeneration >= EstDemand)
        => /\ est_out.est.deficit_ratio[1] = 0
           /\ est_out.result.deficit_ratio = 0
           /\ ~est_out.fires => /\ est_out.result.predicted_stage = 0
                                /\ est_out.result.confidence_score = 850

\* Generation above demand in a peak hour, no perturbation.
ZeroDeficitWitness ==
    /\ EstRan /\ ~est_out.fires
    /\ EstGeneration > EstDemand /\ EstDemand > 0
    /\ IsPeak(EstHour)
    /\ est_out.result.predicted_stage = 0

\* C10: when the rule-based estimator fails, the call still returns: the
\* result is tagged emergency_fallback, its stage is one of 0..3, its
\* confidence is exactly 0.5, it carries an error annotation, and it is
\* within the stage and confidence bounds.
EmergencyNeverRaises ==
    \A c \in Callers :
        (pc[c] \in {"done", "raised"} /\ Len(trace[c]) > 1
            /\ Last(trace[c]) \in {"rule", "emergency"}
            /\ RuleEstimate(data[c]).raised)
            => /\ Done(c)
               /\ result[c].model_used = "emergency_fallback"
               /\ result[c].predicted_stage \in {0, 1, 2, 3}
               /\ result[c].confidence_score = 500
               /\ result[c].error # ""
               /\ result[c].predicted_stage \in 0..8
               /\ result[c].confidence_score \in 0..1000

\* A record whose demand is the string "abc" went through the estimator.
EmergencyWitness ==
    \E c \in Callers :
        /\ Done(c)
        /\ data[c] = NonNumericInput
        /\ result[c].model_used = "emergency_fallback"
        /\ result[c].error = "TypeError"

\* C11 as stated: the cache key is a function of the record's (field, value)
\* pairs alone: whatever the insertion order of a call's record, its key is
\* the key of every record of the same pairs, and it is the key of the entry
\* that an earlier call with the same pairs wrote, so the call reads that
\* entry from a reachable Redis.
KeyOrderInsensitive ==
    \A c \in Callers :
        data[c] # NoData =>
            /\ \A d \in Inputs :
                  PairSet(d) = PairSet(data[c]) => CacheKey(hash_seed, d) = cache_key[c]
            /\ \A k \in DOMAIN cache :
                  written[k] = PairSet(data[c])
                      => /\ cache_key[c] = k
                         /\ is_connected
                               => CacheGet(is_connected, cache, cache_key[c], FALSE).value
                                     = JsonLoads(cache[k].value)

\* C12: only a model success writes the cache: a call that ends on a cache
\* hit, on the rule-based result or on the emergency result leaves the whole
\* cache as it was, and a step that changes the cache is either the passing
\* of time or a model success that stores the returned result under the key
\* of the call's record with 300 seconds to live, every other entry
\* untouched.
CacheWriteFrame ==
    [][/\ \A c \in Callers :
             (pc[c] # "done" /\ pc'[c] = "done"
                /\ ~(pc[c] = "models" /\ result'[c].model_used \in PredictorTags))
                 => cache' = cache
       /\ cache' # cache
             => \/ /\ cache' = Elapse(cache, TickSeconds)
                   /\ pc' = pc
                \/ \E c \in Callers :
                      LET key == CacheKey(hash_seed, data[c]) IN
                      /\ pc[c] = "models" /\ pc'[c] = "done"
                      /\ result'[c].model_used \in PredictorTags
                      /\ DOMAIN cache' = DOMAIN cache \cup {key}
                      /\ cache'[key] = [value |-> JsonDumps(result'[c]), ttl |-> 300]
                      /\ \A k \in DOMAIN cache \ {key} : cache'[k] = cache[k]
      ]_vars

\* One call stored its model result with the full 300 seconds, another call
\* ended on the emergency result, and the cache holds that one entry only.
CacheWriteWitness ==
    \E c1, c2 \in Callers :
        /\ Done(c1) /\ Done(c2)
        /\ Last(trace[c1]) \in PredictorTags
        /\ result[c2].model_used = "emergency_fallback"
        /\ DOMAIN cache = {cache_key[c1]}
        /\ cache[cache_key[c1]] = [value |-> JsonDumps(result[c1]), ttl |-> 300]

\* C13: a cache failure is never surfaced.  On the cache as it stands, a read
\* from a disconnected or failing Redis returns nothing and does not raise; a
\* write to a disconnected or failing Redis reports False, stores nothing and
\* does not raise; a disconnected cache never holds an entry; and a call that
\* went on after its lookup, or ran without a connection, returns one of the
\* results the cascade yields with an empty working cache.
CacheFailureIsMiss ==
    \A c \in Callers :
        /\ pc[c] # "raised"
        /\ \A k \in DOMAIN cache \cup {cache_key[c]} :
              /\ CacheGet(FALSE, cache, k, FALSE) = [raised |-> FALSE, value |-> NoResult]
              /\ CacheGet(FALSE, cache, k, TRUE) = [raised |-> FALSE, value |-> NoResult]
              /\ CacheGet(TRUE, cache, k, TRUE) = [raised |-> FALSE, value |-> NoResult]
              /\ \A connected, fault \in BOOLEAN :
                    (~connected \/ fault)
                        => CacheSet(connected, cache, k, result[c], 300, fault)
                              = [raised |-> FALSE, ok |-> FALSE, store |-> cache]
        /\ ~is_connected => cache = <<>>
        /\ (Done(c) /\ (~is_connected \/ Len(trace[c]) > 1))
              => result[c] \in Resolve(data[c], models)

\* Without a connection to Redis a model answered, the write was dropped and
\* the call returned the model's result.
CacheFailureWitness ==
    \E c \in Callers :
        /\ ~is_connected
        /\ Done(c)
        /\ Last(trace[c]) \in PredictorTags
        /\ result[c].model_used = Last(trace[c])
        /\ cache = <<>>

\* C14: get_model_status does not alter prediction behaviour.  No step ever
\* changes the registry, which stays the one load_models built at start-up;
\* a step that returns a status dict reports on that registry and leaves the
\* cache and every call in progress as they were; and with status calls
\* interleaved, every call still returns a result the cascade yields for its
\* record on the start-up registry, model-tagged results being the model's
\* own.
StatusNoEffect ==
    [][/\ models' = models
       /\ models' = load_models(artifact')
       /\ status' # status
             => /\ status' = get_model_status(models).status
                /\ status'.models_loaded = Cardinality(DOMAIN models)
                /\ UNCHANGED <<cache, written, pc, data, features, idx, result,
                               trace, cache_key, is_connected, hash_seed>>
       /\ \A c \in Callers :
             pc'[c] = "done"
                 => /\ result'[c].model_used \in FallbackTags
                       => result'[c] \in Resolve(data'[c], models')
                    /\ result'[c].model_used \in PredictorTags
                       => \E d \in Inputs :
                             result'[c] \in Resolve(d, models')
      ]_vars

\* The status of a registry of three entries was returned, and a call whose
\* features went through the scaler has returned a model's result.
StatusWitness ==
    /\ status # NoStatus
    /\ status.models_loaded = 3
    /\ status.available_models = <<"xgboost", "random_forest", "scaler">>
    /\ \E c \in Callers :
          /\ Done(c)
          /\ features[c].scaled
          /\ result[c].model_used \in PredictorTags

StrategyRank(s) ==
    CASE s = "cache" -> 1
      [] s = "xgboost" -> 2
      [] s = "random_forest" -> 3
      [] s = "rule" -> 4
      [] s = "emergency" -> 5

Attempted(c, s) == \E i \in 1..Len(trace[c]) : trace[c][i] = s

\* the model s is not registered, or it was attempted and raised
AbsentOrRaised(c, s) ==
    \/ s \notin DOMAIN models
    \/ Attempted(c, s) /\ Predict(models[s], features[c]).raised

\* C15: within one call the strategies are attempted in the order cache
\* lookup, xgboost, random_forest, rule-based estimator, emergency default,
\* each at most once, the cache lookup first; a call answered by the cache
\* has prepared no features and tried no model; random_forest is attempted
\* only if xgboost is absent or raised; the estimator only if both models
\* are absent or raised; the emergency default only if the estimator raised;
\* and the call ends at the first strategy that succeeds.
StrategyOrder ==
    \A c \in Callers :
        LET t == trace[c] IN
        /\ pc[c] # "idle" => Len(t) >= 1 /\ t[1] = "cache"
        /\ \A i, j \in 1..Len(t) : i < j => StrategyRank(t[i]) < StrategyRank(t[j])
        /\ pc[c] = "features" => t = <<"cache">>
        /\ (Done(c) /\ t = <<"cache">>)
              => features[c] = DefaultFeatures /\ idx[c] = 1
        /\ Attempted(c, "xgboost") => "xgboost" \in DOMAIN models
        /\ Attempted(c, "random_forest")
              => "random_forest" \in DOMAIN models /\ AbsentOrRaised(c, "xgboost")
        /\ (Attempted(c, "rule") \/ pc[c] = "fallback")
              => AbsentOrRaised(c, "xgboost") /\ AbsentOrRaised(c, "random_forest")
        /\ Attempted(c, "emergency")
              => Attempted(c, "rule") /\ RuleEstimate(data[c]).raised
        /\ (Attempted(c, "rule") /\ ~Attempted(c, "emergency"))
              => ~RuleEstimate(data[c]).raised
        /\ (Len(t) > 1 /\ Last(t) \in {"xgboost", "random_forest"})
              => (Done(c) <=> ~Predict(models[Last(t)], features[c]).raised)
        /\ (Len(t) > 1 /\ Last(t) \in {"rule", "emergency"}) => Done(c)

\* A call went through the cache lookup, both models and the estimator, in
\* that order, and returned the rule-based result.
StrategyOrderWitness ==
    \E c \in Callers :
        /\ Done(c)
        /\ trace[c] = <<"cache", "xgboost", "random_forest", "rule">>
        /\ result[c].model_used = "rule_based_fallback"

Working(c) == pc[c] \in {"features", "models", "fallback"}

\* every entry of the cache is a whole result dict that a model produced for
\* a record of the entry's key, with at most 300 seconds to live
CacheEntriesWhole ==
    \A k \in DOMAIN cache :
        /\ Len(cache[k].value) = Len(ResultFields)
        /\ \A i \in 1..Len(ResultFields) : cache[k].value[i][1] = ResultFields[i]
        /\ cache[k].ttl \in 1..300
        /\ k \in DOMAIN written
        /\ JsonLoads(cache[k].value).model_used \in PredictorTags
        /\ \E d \in Inputs :
              /\ PairSet(d) = written[k]
              /\ CacheKey(hash_seed, d) = k
              /\ JsonLoads(cache[k].value) \in Resolve(d, models)

\* C16: under any interleaving of concurrent calls, a call that has a step
\* to take can take it whatever the other calls are doing, every call that
\* was started returns, and at every moment every cache entry is a whole
\* result written by a model success for its key, never a fallback result.
ConcurrentCallsIndependent ==
    /\ [](CacheEntriesWhole /\ \A c \in Callers : pc[c] # "raised")
    /\ [](\A c \in Callers : Working(c) => ENABLED Progress(c))
    /\ \A c \in Callers : Working(c) ~> Done(c)

\* Two calls for the same key overlap: one has just stored its model result,
\* the other, which missed the cache, is still in the model loop.
ConcurrentMissWitness ==
    \E c1, c2 \in Callers :
        /\ c1 # c2
        /\ cache_key[c1] = cache_key[c2]
        /\ Done(c1) /\ Last(trace[c1]) \in PredictorTags
        /\ pc[c2] = "models"
        /\ cache_key[c1] \in DOMAIN cache
        /\ cache[cache_key[c1]].ttl = 300

\* The bands of the table: <<from, below>> in hundredths, stage, confidence
\* in thousandths
ThresholdRows ==
    {<<0, 2, 0, 850>>, <<2, 5, 1, 750>>, <<5, 8, 2, 700>>, <<8, 12, 3, 650>>,
     <<12, 16, 4, 600>>}

\* adjusted_ratio of the record the estimator was applied to, as a fraction:
\* the deficit over the demand, times 1.3 in the hours 6-10 and 17-21
EstAdjusted ==
    LET deficit == IF EstDemand > EstGeneration THEN EstDemand - EstGeneration ELSE 0
        mult == IF EstHour \in (6..10) \cup (17..21) THEN 13 ELSE 10
    IN IF EstDemand > 0 THEN <<deficit * mult, EstDemand * 10>> ELSE <<0, 1>>

\* C17: absent perturbation the estimator follows the threshold table on
\* adjusted_ratio: a ratio from a band's lower bound (included) up to its
\* upper bound (excluded) yields the band's stage and confidence; from 0.16
\* on the stage is min(8, floor(adjusted_ratio * 25)) with confidence 0.55.
ThresholdTable ==
    (EstRan /\ ~est_out.fires)
        => LET a == EstAdjusted
               r == est_out.result
           IN /\ \A row \in ThresholdRows :
                    (row[1] * a[2] <= 100 * a[1] /\ 100 * a[1] < row[2] * a[2])
                        => r.predicted_stage = row[3] /\ r.confidence_score = row[4]
              /\ 16 * a[2] <= 100 * a[1]
                    => /\ r.predicted_stage = Min(8, (25 * a[1]) \div a[2])
                       /\ r.confidence_score = 550

\* An adjusted ratio of exactly 0.08 was given stage 3 with confidence 0.65.
ThresholdWitness ==
    /\ EstRan /\ ~est_out.fires
    /\ 100 * EstAdjusted[1] = 8 * EstAdjusted[2]
    /\ est_out.result.predicted_stage = 3
    /\ est_out.result.confidence_score = 650

\* C18: when the perturbation fires the returned stage is the unperturbed
\* stage plus or minus 1 clamped to 0..8 and the confidence is 0.9 times the
\* unperturbed one, also when the clamp leaves the stage where it was; when
\* it does not fire both are the unperturbed values; the returned stage is
\* never more than 1 away from the unperturbed stage.
PerturbationEffect ==
    EstRan
        => LET u == est_out.est
               r == est_out.result
           IN /\ est_out.fires
                    => /\ est_out.shift \in {0 - 1, 1}
                       /\ r.predicted_stage = Clamp(u.stage + est_out.shift)
                       /\ r.confidence_score * 100 = u.confidence * 9
                       /\ r.confidence_score * 10 < u.confidence
              /\ ~est_out.fires
                    => /\ r.predicted_stage = u.stage
                       /\ r.confidence_score * 10 = u.confidence
              /\ r.predicted_stage - u.stage \in {0 - 1, 0, 1}

\* The perturbation fired downwards on stage 0: the stage stayed 0 and the
\* confidence went from 0.85 to 0.765.
PerturbationWitness ==
    /\ EstRan /\ est_out.fires
    /\ est_out.est.stage = 0 /\ est_out.shift = 0 - 1
    /\ est_out.result.predicted_stage = 0
    /\ est_out.result.confidence_score = 765

\* the default array as the claim spells it: 25.0, 60.0, 10.0, 30000.0,
\* 28000.0, 1.5 (15 tenths), 12, 1, 6, 0, 1
SpelledDefault ==
    [vec |-> <<N(25), N(60), N(10), N(30000), N(28000), N(15), N(12), N(1),
               N(6), N(0), N(1)>>,
     scaled |-> FALSE]

\* feature preparation fails on the record: no timestamp under "datetime", a
\* timestamp that does not parse, or a registered scaler that raises, by
\* itself or on a value that is not a number
FeaturePrepFails(d, reg) ==
    \/ ~HasKey(d, "datetime")
    \/ ParseDatetime(Lookup(d, "datetime")).raised
    \/ /\ "scaler" \in DOMAIN reg
       /\ \/ reg["scaler"] = "scaler_throwing"
          \/ \E i \in 1..Len(d) : d[i][1] # "datetime" /\ d[i][2].t # "num"

\* the registered models that answer on the default array
Usable == {m \in PredictorTags \cap DOMAIN models : models[m] # "throwing"}

\* the first of them in the preference order
FirstUsable == IF "xgboost" \in Usable THEN "xgboost" ELSE "random_forest"

MissingDatetimeKey ==
    \A c \in Callers :
        (Done(c) /\ ~HasKey(data[c], "datetime"))
            => /\ \A fires \in BOOLEAN, shift \in Shifts, pick \in EmergencyPicks :
                     LET f == fallback_prediction(data[c], fires, shift, pick).result IN
                     f.model_used = "emergency_fallback" /\ f.error = "KeyError"
               /\ result[c].model_used # "rule_based_fallback"
               /\ Usable = {}
                     => /\ result[c].model_used = "emergency_fallback"
                        /\ result[c].error = "KeyError"
                        /\ cache = <<>>
               /\ Usable # {}
                     => /\ result[c] = TryModel(FirstUsable, models[FirstUsable],
                                                SpelledDefault).result
                        /\ result[c].model_used = FirstUsable
               /\ cache_key[c] = CacheKey(hash_seed, data[c])
               /\ cache_key[c] \in DOMAIN cache
                     => /\ JsonLoads(cache[cache_key[c]].value) = result[c]
                        /\ written[cache_key[c]] = PairSet(data[c])

\* The record create_prediction builds was answered by xgboost on the default
\* array (stage 2, confidence 0.6) and the result is cached under its key.
MissingDatetimeWitness ==
    \E c \in Callers :
        /\ Done(c) /\ data[c] = RouterInput
        /\ trace[c] = <<"cache", "xgboost">>
        /\ result[c].model_used = "xgboost"
        /\ result[c].predicted_stage = 2
        /\ result[c].confidence_score = 600
        /\ CacheKey(hash_seed, RouterInput) \in DOMAIN cache
        /\ cache[CacheKey(hash_seed, RouterInput)].value = JsonDumps(result[c])

====
